---------------------------- MODULE Spec2Model ----------------------------
(***************************************************************************)
(* A model of google-keep-to-evernote.py: the metadata extractor           *)
(* (get_timestamps_from_json), the note assembler (process_note) and the   *)
(* sequential driver (create_enex_chunks).                                 *)
(*                                                                         *)
(* Text is a sequence of one-character strings, so that Python's           *)
(* substring test, strip() and the escaping functions are computed on the  *)
(* characters.  A character outside ASCII is written by its code point     *)
(* ("U2611" is the ballot box with check).  Python's None is NoneV, and an *)
(* optional value v is Some(v).                                            *)
(***************************************************************************)
EXTENDS Integers, Sequences, FiniteSets, TLC

NoneV == <<>>
Some(v) == <<v>>

-----------------------------------------------------------------------------
(* Bounds of the model *)

MaxNotes == 3        \* number of .html files in the source directory
MaxChunk == 2        \* largest configured chunk size
MaxLabels == 2       \* entries of a sidecar's labels list
MaxImages == 2       \* img elements of one note
MaxItems == 2        \* li elements of one note
MaxLists == 2        \* ul.list elements of one note

-----------------------------------------------------------------------------
(* Text *)

S_pinned == <<"p","i","n","n","e","d">>
S_archived == <<"a","r","c","h","i","v","e","d">>
S_shopping == <<"s","h","o","p">>
S_unpinned == <<"u","n">> \o S_pinned
S_Untitled == <<"U","n","t","i","t","l","e","d">>
S_Groceries == <<"G","r","o","c">>
S_milk == <<"m","i","l","k">>
S_amp == <<"a","&","b">>
S_png == <<"a",".","p","n","g">>
S_zzz == <<"x",".","z","z","z">>
S_ncr == <<"&","#","9","7","4","5",";">>

\* Python: w in s
Contains(s, w) ==
    \E i \in 1..(Len(s) - Len(w) + 1) : SubSeq(s, i, i + Len(w) - 1) = w

StartsWith(s, w) == Len(s) >= Len(w) /\ SubSeq(s, 1, Len(w)) = w
EndsWith(s, w) == Len(s) >= Len(w) /\ SubSeq(s, Len(s) - Len(w) + 1, Len(s)) = w

IsSpace(c) == c \in {" ", "\n", "\t"}

RECURSIVE LStrip(_)
LStrip(s) == IF s # <<>> /\ IsSpace(Head(s)) THEN LStrip(Tail(s)) ELSE s

RECURSIVE RStrip(_)
RStrip(s) ==
    IF s # <<>> /\ IsSpace(s[Len(s)]) THEN RStrip(SubSeq(s, 1, Len(s) - 1)) ELSE s

\* str.strip(); also get_text(strip=True) of an element holding one string
Strip(s) == RStrip(LStrip(s))

\* html.unescape, on the references the model's alphabet can spell
RECURSIVE html_unescape(_)
html_unescape(s) ==
    IF s = <<>> THEN <<>>
    ELSE IF StartsWith(s, <<"&","a","m","p",";">>)
        THEN <<"&">> \o html_unescape(SubSeq(s, 6, Len(s)))
    ELSE IF StartsWith(s, <<"&","l","t",";">>)
        THEN <<"<">> \o html_unescape(SubSeq(s, 5, Len(s)))
    ELSE IF StartsWith(s, <<"&","g","t",";">>)
        THEN <<">">> \o html_unescape(SubSeq(s, 5, Len(s)))
    ELSE IF StartsWith(s, S_ncr)
        THEN <<"U2611">> \o html_unescape(SubSeq(s, 8, Len(s)))
    ELSE <<Head(s)>> \o html_unescape(Tail(s))

\* unicodedata.normalize("NFC", .): e followed by the combining acute accent
\* composes to U00E9; the other characters of the alphabet are composed already
RECURSIVE NFC(_)
NFC(s) ==
    IF s = <<>> THEN <<>>
    ELSE IF StartsWith(s, <<"e","U0301">>)
        THEN <<"U00E9">> \o NFC(SubSeq(s, 3, Len(s)))
    ELSE <<Head(s)>> \o NFC(Tail(s))

\* html.escape(text, quote=False)
RECURSIVE html_escape(_)
html_escape(s) ==
    IF s = <<>> THEN <<>>
    ELSE (CASE Head(s) = "&" -> <<"&","a","m","p",";">>
            [] Head(s) = "<" -> <<"&","l","t",";">>
            [] Head(s) = ">" -> <<"&","g","t",";">>
            [] OTHER -> <<Head(s)>>) \o html_escape(Tail(s))

\* text is NoneV or Some(string)
escape_xml(text) ==
    IF text = NoneV THEN <<>>
    ELSE html_escape(NFC(html_unescape(text[1])))

SecondsPerDay == 86400

\* strftime('%Y%m%dT%H%M%SZ') of a UTC instant, as <<Y, m, d, H, M, S>>.
\* The epochs of the model lie within the first day of the epoch.
format_timestamp(epoch_seconds) ==
    LET s == epoch_seconds % SecondsPerDay
    IN <<1970, 1, 1 + (epoch_seconds \div SecondsPerDay),
         s \div 3600, (s % 3600) \div 60, s % 60>>

-----------------------------------------------------------------------------
(* get_timestamps_from_json *)

(***************************************************************************)
(* A sidecar is [exists, parse, data].  parse is "object" when json.load   *)
(* yields a dict, "invalid" when opening or json.load raises, "nonobject"  *)
(* when json.load yields a value without .get (a list, a number).  data    *)
(* holds the fields of the object:                                         *)
(*   createdTimestampUsec, userEditedTimestampUsec:                        *)
(*     [k, v] with k "absent", "int" (the number v), "digits" (a string of *)
(*     digits spelling v), "text" (another string), "nan" (the float NaN,  *)
(*     on which int() raises)                                              *)
(*   isPinned, isArchived: "absent", "true", "false"                       *)
(*   labels: [k, items] with k "absent", "int" (a number, not iterable),   *)
(*     "list" (items, a sequence of [k, name] with k "obj" (a dict, name   *)
(*     NoneV when it has no 'name' key, else Some(text)) or "int" (a       *)
(*     number, on which 'name' in label raises))                           *)
(***************************************************************************)

UsecPerSec == 1000000

\* lines 78-82 and 85-89: [raises, val], val = NoneV when the field sets nothing
CoerceUsec(f) ==
    CASE f.k = "int" -> [raises |-> FALSE, val |-> Some(f.v \div UsecPerSec)]
      [] f.k = "digits" -> [raises |-> FALSE, val |-> Some(f.v \div UsecPerSec)]
      [] f.k = "nan" -> [raises |-> TRUE, val |-> NoneV]
      [] OTHER -> [raises |-> FALSE, val |-> NoneV]

\* bool(data.get(key, False))
CoerceFlag(f) == f = "true"

\* line 97: the comprehension over data['labels']
RECURSIVE LabelNames(_)
LabelNames(items) ==
    IF items = <<>> THEN <<>>
    ELSE IF Head(items).name # NoneV
        THEN <<Head(items).name[1]>> \o LabelNames(Tail(items))
    ELSE LabelNames(Tail(items))

\* lines 96-97: [raises, val]
ExtractLabels(f) ==
    CASE f.k = "absent" -> [raises |-> FALSE, val |-> <<>>]
      [] f.k = "int" -> [raises |-> TRUE, val |-> <<>>]
      [] OTHER ->
            IF \E i \in 1..Len(f.items) : f.items[i].k = "int"
            THEN [raises |-> TRUE, val |-> <<>>]
            ELSE [raises |-> FALSE, val |-> LabelNames(f.items)]

\* lines 67-70
MetaInitial ==
    [created |-> NoneV, updated |-> NoneV, is_pinned |-> FALSE,
     is_archived |-> FALSE, labels |-> <<>>, warned |-> FALSE]

\* lines 99-100: the handler prints a warning and keeps what was assigned
Warned(m) == [m EXCEPT !.warned = TRUE]

\* lines 72-100: the locals when the try statement is left
ParseSidecar(json) ==
    IF ~json.exists THEN MetaInitial
    ELSE IF json.parse # "object" THEN Warned(MetaInitial)
    ELSE
      LET c == CoerceUsec(json.data.createdTimestampUsec)
          m1 == [MetaInitial EXCEPT !.created = c.val]
          u == CoerceUsec(json.data.userEditedTimestampUsec)
          m2 == [m1 EXCEPT !.updated = u.val]
          m3 == [m2 EXCEPT !.is_pinned = CoerceFlag(json.data.isPinned),
                           !.is_archived = CoerceFlag(json.data.isArchived)]
          l == ExtractLabels(json.data.labels)
      IN IF c.raises THEN Warned(MetaInitial)
         ELSE IF u.raises THEN Warned(m1)
         ELSE IF l.raises THEN Warned(m3)
         ELSE [m3 EXCEPT !.labels = l.val]

\* lines 102-107: mtime is NoneV when os.path.getmtime raises
FallbackCreated(mtime, now) == IF mtime # NoneV THEN mtime[1] ELSE now

\* lines 62-112.  The result is the returned tuple, with warned for the
\* line printed by the handler.
get_timestamps_from_json(json, mtime, now) ==
    LET m == ParseSidecar(json)
        created == IF m.created = NoneV THEN FallbackCreated(mtime, now)
                   ELSE m.created[1]
        updated == IF m.updated = NoneV THEN created ELSE m.updated[1]
    IN [created |-> created, updated |-> updated, is_pinned |-> m.is_pinned,
        is_archived |-> m.is_archived, labels |-> m.labels,
        warned |-> m.warned]

-----------------------------------------------------------------------------
(* process_note *)

(***************************************************************************)
(* A note source is                                                        *)
(*   [html, title, container, body, items, checklists, imgs, json, mtime,  *)
(*    now]                                                                 *)
(* html: "ok", or "unreadable" when opening or parsing the body file       *)
(*   raises; title: NoneV (no title element) or Some(text); container:     *)
(*   "div" (a div.content), "body" (only a body element) or "none";        *)
(*   body: the free text of the container.                                 *)
(* items: the li.listitem elements, each [bullet, text, todo, tail]:       *)
(*   bullet and text are the contents of its span.bullet and span.text     *)
(*   (NoneV when it has none); todo is NoneV or Some(the checked attribute *)
(*   of its en-todo child); tail is the string after the en-todo.          *)
(* checklists: the ul.list elements in document order, each the indices of *)
(*   the items below it in document order; an item below a ul.list nested  *)
(*   in another ul.list is in both.                                        *)
(* imgs: the img elements, each [scheme, basename, isfile, loads, bytes,   *)
(*   mime]: scheme "data" when src starts with data:image/, else "path";   *)
(*   basename = os.path.basename(src); isfile, whether src names a file    *)
(*   under the source directory; loads, whether decoding (data) or reading *)
(*   (path) succeeds; bytes, the payload; mime, the type named by a data   *)
(*   URI's header.                                                         *)
(* json, mtime, now: the sidecar, the body file's modification time        *)
(*   (NoneV when unavailable) and the current time.                        *)
(***************************************************************************)

\* line 167
CheckedGlyphs == {<<"U2611">>, <<"U2713">>, <<"U2714">>, S_ncr}

\* IsChecked with the ballot box as the only checked glyph
IsChecked_ballot(char) == char = <<"U2611">>

\* line 167
IsChecked(char) == char \in CheckedGlyphs

\* lines 162-172 on one li: [li, counted]
ConvertItem(li) ==
    IF li.bullet # NoneV /\ li.text # NoneV
    THEN LET char == Strip(li.bullet[1])
         IN [li |-> [bullet |-> NoneV, text |-> NoneV,
                     todo |-> Some(IF IsChecked(char) THEN "true" ELSE "false"),
                     tail |-> <<" ">> \o Strip(li.text[1])],
             counted |-> 1]
    ELSE [li |-> li, counted |-> 0]

\* lines 161-172: st = [items, count]
RECURSIVE NormalizeList(_, _)
NormalizeList(st, idxs) ==
    IF idxs = <<>> THEN st
    ELSE LET r == ConvertItem(st.items[Head(idxs)])
         IN NormalizeList([items |-> [st.items EXCEPT ![Head(idxs)] = r.li],
                           count |-> st.count + r.counted],
                          Tail(idxs))

\* lines 160-172
RECURSIVE NormalizeChecklists(_, _)
NormalizeChecklists(st, lists) ==
    IF lists = <<>> THEN st
    ELSE NormalizeChecklists(NormalizeList(st, Head(lists)), Tail(lists))

\* mimetypes.guess_type, on the extensions of the model
guess_type(name) ==
    IF EndsWith(name, <<".","p","n","g">>) THEN "image/png" ELSE "None"

\* mimetypes.guess_extension
guess_extension(mime_type) ==
    IF mime_type = "image/png" THEN Some(<<".","p","n","g">>) ELSE NoneV

\* base64.b64encode: a reversible re-encoding of the bytes
b64encode(bytes) == [i \in 1..Len(bytes) |-> 255 - bytes[i]]
b64decode(encoded) == [i \in 1..Len(encoded) |-> 255 - encoded[i]]

\* hashlib.md5(.).hexdigest(): a digest, a function of the bytes alone
RECURSIVE md5(_)
md5(bytes) ==
    IF bytes = <<>> THEN 7
    ELSE (md5(SubSeq(bytes, 1, Len(bytes) - 1)) * 31 + bytes[Len(bytes)]) % 65536

\* lines 135 and 150, 192, 203: the messages written to the migration log
LogLine(level, what, path, src) ==
    [level |-> level, what |-> what, path |-> path, src |-> src]

\* log_warning with the file opened for writing: earlier lines are lost
log_warning_truncate(log, msg) == <<msg>>

\* lines 114-117: the file is opened for appending
log_warning(log, msg) == Append(log, msg)

\* lines 211-213
FileName(img, mime_type) ==
    IF img.basename = <<>> \/ StartsWith(img.basename, <<"d","a","t","a",":">>)
    THEN <<"i","m","a","g","e">> \o
         (IF guess_extension(mime_type) # NoneV THEN guess_extension(mime_type)[1]
          ELSE <<".","b","i","n">>)
    ELSE img.basename

\* lines 181-227 on one img: st = [resources, media_tags, media_count, log]
EmbedImage(st, img, path) ==
    LET fails == \/ img.scheme = "data" /\ ~img.loads
                 \/ img.scheme = "path" /\ img.isfile /\ ~img.loads
        got == img.scheme = "data" \/ img.isfile
        image_data == IF got THEN img.bytes ELSE <<>>
        mime_type == IF ~got THEN "None"
                     ELSE IF img.scheme = "data" THEN img.mime
                     ELSE guess_type(img.basename)
    IN IF fails
       THEN [st EXCEPT !.log = log_warning(@,
                LogLine("WARN",
                        IF img.scheme = "data" THEN "base64" ELSE "local",
                        path,
                        IF img.scheme = "data" THEN <<>> ELSE img.basename))]
       ELSE IF image_data # <<>> /\ mime_type # "None"
       THEN [st EXCEPT
               !.resources = Append(@,
                   [data |-> b64encode(image_data), mime |-> mime_type,
                    file_name |-> escape_xml(Some(FileName(img, mime_type)))]),
               !.media_tags = Append(@,
                   [type |-> mime_type, hash |-> md5(image_data)]),
               !.media_count = @ + 1]
       ELSE st

\* EmbedImages with break for continue: a failing image ends the loop
RECURSIVE EmbedImages_break(_, _, _)
EmbedImages_break(st, imgs, path) ==
    IF imgs = <<>> THEN st
    ELSE LET next == EmbedImage(st, Head(imgs), path)
         IN IF Len(next.log) > Len(st.log) THEN next
            ELSE EmbedImages_break(next, Tail(imgs), path)

\* lines 180-227
RECURSIVE EmbedImages(_, _, _)
EmbedImages(st, imgs, path) ==
    IF imgs = <<>> THEN st
    ELSE EmbedImages(EmbedImage(st, Head(imgs), path), Tail(imgs), path)

\* BuildTags with a synthetic tag left out when a label spells it already
BuildTags_dedup(json_labels, is_pinned, is_archived) ==
    LET Has(w) == \E i \in 1..Len(json_labels) : json_labels[i] = w
        tags == json_labels
                \o (IF is_pinned /\ ~Has(S_pinned) THEN <<S_pinned>> ELSE <<>>)
                \o (IF is_archived /\ ~Has(S_archived) THEN <<S_archived>>
                    ELSE <<>>)
    IN [i \in 1..Len(tags) |-> escape_xml(Some(tags[i]))]

\* lines 233-240
BuildTags(json_labels, is_pinned, is_archived) ==
    LET tags == json_labels
                \o (IF is_pinned THEN <<S_pinned>> ELSE <<>>)
                \o (IF is_archived THEN <<S_archived>> ELSE <<>>)
    IN [i \in 1..Len(tags) |-> escape_xml(Some(tags[i]))]

\* decode_contents() writes a string with & < > as references; lines 230-231
\* decode the references and compose
ContentText(s) == NFC(html_unescape(html_escape(s)))

\* the markup of one li
ItemMarkup(li) ==
    [bullet |-> IF li.bullet = NoneV THEN NoneV
                ELSE Some(ContentText(li.bullet[1])),
     text |-> IF li.text = NoneV THEN NoneV ELSE Some(ContentText(li.text[1])),
     todo |-> li.todo,
     tail |-> ContentText(li.tail)]

\* lines 174, 230-231: the markup of the container: its text, its items, and
\* the img elements, which stay in the markup with their src
ContentHtml(n, items) ==
    [body |-> ContentText(n.body),
     items |-> [i \in 1..Len(items) |-> ItemMarkup(items[i])],
     img_src |-> [i \in 1..Len(n.imgs) |-> ContentText(n.imgs[i].basename)]]

\* lines 119-262: [result, log, warned]; result is NoneV or
\* Some([note_xml, created_epoch, stats]), log the migration log afterwards
\* (log_file before), warned whether the sidecar's warning was printed
process_note(n, path, log_file) ==
    LET meta == get_timestamps_from_json(n.json, n.mtime, n.now)
        title == escape_xml(Some(IF n.title = NoneV THEN S_Untitled
                                 ELSE Strip(n.title[1])))
        lists == NormalizeChecklists([items |-> n.items, count |-> 0],
                                     n.checklists)
        media == EmbedImages([resources |-> <<>>, media_tags |-> <<>>,
                              media_count |-> 0, log |-> log_file],
                             n.imgs, path)
    IN IF n.html = "unreadable"
       THEN [result |-> NoneV,
             log |-> log_warning(log_file,
                                 LogLine("ERROR", "parse", path, <<>>)),
             warned |-> meta.warned]
       ELSE IF n.container = "none"
       THEN [result |-> NoneV,
             log |-> log_warning(log_file,
                                 LogLine("SKIP", "content", path, <<>>)),
             warned |-> meta.warned]
       ELSE [result |-> Some(
               [note_xml |->
                  [title |-> title,
                   tag_elements |-> BuildTags(meta.labels, meta.is_pinned,
                                              meta.is_archived),
                   content_html |-> ContentHtml(n, lists.items),
                   media_tags |-> media.media_tags,
                   created_time |-> format_timestamp(meta.created),
                   updated_time |-> format_timestamp(meta.updated),
                   resources |-> media.resources],
                created_epoch |-> meta.created,
                stats |-> [media_count |-> media.media_count,
                           checklist_count |-> lists.count]]),
             log |-> media.log,
             warned |-> meta.warned]

-----------------------------------------------------------------------------
(* Inputs *)

SeqsUpTo(S, n) == UNION {[1..k -> S] : k \in 0..n}

\* the strictly increasing sequences over 1..n but the empty one: the items
\* below a ul.list, in document order
IncreasingSeqs(n) ==
    {q \in SeqsUpTo(1..n, n) :
        q # <<>> /\ \A i \in 1..(Len(q) - 1) : q[i] < q[i + 1]}

\* a field the object does not have
Absent == [k |-> "absent", v |-> 0]
NoLabels == [k |-> "absent", items |-> <<>>]

UsecFields ==
    {Absent, [k |-> "int", v |-> 1500000], [k |-> "digits", v |-> 2000000],
     [k |-> "text", v |-> 0], [k |-> "nan", v |-> 0]}

EditedFields ==
    {Absent, [k |-> "int", v |-> 3999999], [k |-> "nan", v |-> 0]}

FlagFields == {"absent", "true", "false"}

LabelEntries ==
    {[k |-> "obj", name |-> Some(S_shopping)],
     [k |-> "obj", name |-> Some(S_pinned)],
     [k |-> "obj", name |-> Some(S_amp)],
     [k |-> "obj", name |-> NoneV],
     [k |-> "int", name |-> NoneV]}

LabelFields ==
    {NoLabels, [k |-> "int", items |-> <<>>]}
    \cup {[k |-> "list", items |-> q] : q \in SeqsUpTo(LabelEntries, MaxLabels)}

NoData ==
    [createdTimestampUsec |-> Absent, userEditedTimestampUsec |-> Absent,
     isPinned |-> "absent", isArchived |-> "absent", labels |-> NoLabels]

NoSidecar == [exists |-> FALSE, parse |-> "invalid", data |-> NoData]

\* the fields of a sidecar that parses to an object
ObjectData ==
    [createdTimestampUsec : UsecFields, userEditedTimestampUsec : EditedFields,
     isPinned : FlagFields, isArchived : FlagFields, labels : LabelFields]

ObjectSidecar(d) == [exists |-> TRUE, parse |-> "object", data |-> d]

\* no sidecar; a sidecar json.load rejects; a sidecar that is no object
OtherSidecars ==
    {NoSidecar,
     [exists |-> TRUE, parse |-> "invalid", data |-> NoData],
     [exists |-> TRUE, parse |-> "nonobject", data |-> NoData]}

MetaCall(json, mtime) == [json |-> json, mtime |-> mtime, now |-> 9]

\* a sidecar that parses, with the given fields
Sidecar(created_usec, pinned, archived, names) ==
    [exists |-> TRUE, parse |-> "object",
     data |-> [createdTimestampUsec |-> [k |-> "int", v |-> created_usec],
               userEditedTimestampUsec |-> Absent,
               isPinned |-> pinned, isArchived |-> archived,
               labels |-> [k |-> "list",
                           items |-> [i \in 1..Len(names) |->
                                        [k |-> "obj", name |-> Some(names[i])]]]]]

PlainNote ==
    [html |-> "ok", title |-> Some(S_Groceries), container |-> "div",
     body |-> <<>>, items |-> <<>>, checklists |-> <<>>, imgs |-> <<>>,
     json |-> NoSidecar, mtime |-> Some(5), now |-> 9]

Li(bullet, text) ==
    [bullet |-> bullet, text |-> text, todo |-> NoneV, tail |-> <<>>]

ListItems ==
    {Li(Some(<<" ", "U2713", "\n">>), Some(<<" ">> \o S_milk)),
     Li(Some(<<"x">>), Some(S_milk)),
     Li(NoneV, Some(S_milk)),
     Li(Some(<<"U2713">>), NoneV)}

GlyphItems ==
    {Li(Some(b), Some(S_milk)) :
        b \in CheckedGlyphs \cup {<<"U2610">>, <<>>, <<"U2713", "U2713">>}}

PngData(bytes, loads) ==
    [scheme |-> "data", basename |-> <<"p","n","g",";","b","6","4">>,
     isfile |-> FALSE, loads |-> loads, bytes |-> bytes, mime |-> "image/png"]

FileRef(basename, isfile, loads, bytes) ==
    [scheme |-> "path", basename |-> basename, isfile |-> isfile,
     loads |-> loads, bytes |-> bytes, mime |-> "None"]

ImgRefs ==
    {PngData(<<1>>, TRUE), PngData(<<2, 3>>, TRUE), PngData(<<>>, TRUE),
     PngData(<<>>, FALSE),
     FileRef(S_png, TRUE, TRUE, <<1>>), FileRef(S_png, TRUE, FALSE, <<>>),
     FileRef(S_zzz, TRUE, TRUE, <<2, 3>>), FileRef(S_png, FALSE, FALSE, <<>>)}

ChecklistNote(it, ls) == [PlainNote EXCEPT !.items = it, !.checklists = ls]

GlyphNotes == {ChecklistNote(<<it>>, << <<1>> >>) : it \in GlyphItems}

ImageNotes ==
    {[PlainNote EXCEPT !.imgs = q, !.container = c] :
        q \in SeqsUpTo(ImgRefs, MaxImages), c \in {"div", "body"}}

\* the fields of the sidecars of the notes given to process_note
NoteObjectData ==
    [createdTimestampUsec : {Absent, [k |-> "int", v |-> 1500000]},
     userEditedTimestampUsec : {Absent, [k |-> "nan", v |-> 0]},
     isPinned : FlagFields, isArchived : FlagFields, labels : LabelFields]

SidecarNote(json) == [PlainNote EXCEPT !.json = json]

TextNotes ==
    {[PlainNote EXCEPT !.title = t, !.body = b, !.html = h, !.container = c] :
        t \in {NoneV, Some(<<" ">> \o S_amp \o <<"\n">>), Some(S_pinned),
               Some(<<"e", "U0301", "&", "l", "t", ";">>)},
        b \in {<<>>, S_unpinned, S_ncr},
        h \in {"ok", "unreadable"},
        c \in {"div", "body", "none"}}

\* The notes of a run of the driver, by kind
Profiles == {"flagged", "words", "empty", "unreadable"}

NoteOf(profile) ==
    CASE profile = "flagged" ->
            [PlainNote EXCEPT
                !.json = Sidecar(2000000, "true", "true", <<S_shopping>>),
                !.items = <<Li(Some(<<"U2713">>), Some(S_milk))>>,
                !.checklists = << <<1>> >>,
                !.imgs = <<PngData(<<1>>, TRUE)>>]
      [] profile = "words" ->
            [PlainNote EXCEPT
                !.json = Sidecar(1500000, "false", "absent", <<>>),
                !.title = Some(S_unpinned),
                !.imgs = <<FileRef(S_png, TRUE, FALSE, <<>>)>>]
      [] profile = "empty" -> [PlainNote EXCEPT !.container = "none"]
      [] OTHER -> [PlainNote EXCEPT !.html = "unreadable"]

-----------------------------------------------------------------------------
(* create_enex_chunks *)

VARIABLES
    src,                \* the source directory: file name -> kind of note
    html_files,         \* line 271: the .html names, in os.listdir's order
    chunk_size,
    sort_chronological,
    pc,                 \* position in create_enex_chunks
    idx,                \* position of the loop of line 288 in html_files
    notes_data,         \* line 280
    total_stats,        \* line 281
    log_file,           \* the lines of migration_log.txt
    enex_notes,         \* line 317
    chunk_i,            \* the i of line 323
    output,             \* the documents written, in the order written
    summary,            \* lines 339-345: the counts printed
    m_in, m_out,        \* a call of get_timestamps_from_json and its result
    u_in, u_out         \* a call of process_note and its result

vars == <<src, html_files, chunk_size, sort_chronological, pc, idx, notes_data,
          total_stats, log_file, enex_notes, chunk_i, output, summary,
          m_in, m_out, u_in, u_out>>

driver == <<src, html_files, chunk_size, sort_chronological, pc, idx,
            notes_data, total_stats, log_file, enex_notes, chunk_i, output,
            summary>>

\* The text of note_xml is the template of lines 249-260 with these fields
\* in it; the template itself spells neither "pinned" nor "archived".
\* Python: w in note_xml
XmlContains(note_xml, w) ==
    \/ Contains(note_xml.title, w)
    \/ \E i \in 1..Len(note_xml.tag_elements) :
          Contains(note_xml.tag_elements[i], w)
    \/ Contains(note_xml.content_html.body, w)
    \/ \E i \in 1..Len(note_xml.content_html.items) :
          LET li == note_xml.content_html.items[i]
          IN \/ li.bullet # NoneV /\ Contains(li.bullet[1], w)
             \/ li.text # NoneV /\ Contains(li.text[1], w)
             \/ Contains(li.tail, w)
    \/ \E i \in 1..Len(note_xml.content_html.img_src) :
          Contains(note_xml.content_html.img_src[i], w)
    \/ \E i \in 1..Len(note_xml.resources) :
          Contains(note_xml.resources[i].file_name, w)

\* InsertByCreated placing a note before the notes of the same epoch: the
\* sort is no longer stable
RECURSIVE InsertByCreated_unstable(_, _)
InsertByCreated_unstable(sorted, x) ==
    IF sorted = <<>> THEN <<x>>
    ELSE IF sorted[Len(sorted)].created_epoch < x.created_epoch
        THEN Append(sorted, x)
    ELSE Append(InsertByCreated_unstable(SubSeq(sorted, 1, Len(sorted) - 1), x),
                sorted[Len(sorted)])

\* list.sort(key=lambda x: x[1]): one step of a stable insertion
RECURSIVE InsertByCreated(_, _)
InsertByCreated(sorted, x) ==
    IF sorted = <<>> THEN <<x>>
    ELSE IF sorted[Len(sorted)].created_epoch <= x.created_epoch
        THEN Append(sorted, x)
    ELSE Append(InsertByCreated(SubSeq(sorted, 1, Len(sorted) - 1), x),
                sorted[Len(sorted)])

\* line 313
RECURSIVE SortByCreated(_)
SortByCreated(data) ==
    IF data = <<>> THEN <<>>
    ELSE InsertByCreated(SortByCreated(SubSeq(data, 1, Len(data) - 1)),
                         data[Len(data)])

\* line 320
TotalChunks(n, size) == (n + size - 1) \div size

\* ChunkSlice with the slice one note too long: consecutive chunks overlap
ChunkSlice_overlap(notes, i, size) ==
    SubSeq(notes, i * size + 1,
           IF (i + 1) * size + 1 < Len(notes) THEN (i + 1) * size + 1
           ELSE Len(notes))

\* line 324: enex_notes[i * chunk_size:(i + 1) * chunk_size]
ChunkSlice(notes, i, size) ==
    SubSeq(notes, i * size + 1,
           IF (i + 1) * size < Len(notes) THEN (i + 1) * size ELSE Len(notes))

\* line 325: f'{i+1:03}', as decimal digits
Pad3(n) == <<n \div 100, (n \div 10) % 10, n % 10>>

\* lines 296-303
AddStats(total, note_xml, stats) ==
    [media_count |-> total.media_count + stats.media_count,
     checklist_count |-> total.checklist_count + stats.checklist_count,
     pinned_count |->
        total.pinned_count + (IF XmlContains(note_xml, S_pinned) THEN 1 ELSE 0),
     archived_count |->
        total.archived_count
        + (IF XmlContains(note_xml, S_archived) THEN 1 ELSE 0)]

\* lines 268-286
Discover ==
    /\ pc = "start"
    /\ IF html_files = <<>>
       THEN pc' = "aborted"
       ELSE pc' = "process"
    /\ UNCHANGED <<src, html_files, chunk_size, sort_chronological, idx,
                   notes_data, total_stats, log_file, enex_notes, chunk_i,
                   output, summary, m_in, m_out, u_in, u_out>>

\* lines 288-305: one iteration.  Each entry of notes_data also carries the
\* file name it came from (origin), which the program does not keep.
ProcessOne ==
    /\ pc = "process"
    /\ idx <= Len(html_files)
    /\ LET filename == html_files[idx]
           r == process_note(NoteOf(src[filename]), filename, log_file)
       IN /\ log_file' = r.log
          /\ IF r.result # NoneV
             THEN /\ notes_data' = Append(notes_data,
                        [note_xml |-> r.result[1].note_xml,
                         created_epoch |-> r.result[1].created_epoch,
                         origin |-> filename])
                  /\ total_stats' = AddStats(total_stats,
                                             r.result[1].note_xml,
                                             r.result[1].stats)
             ELSE UNCHANGED <<notes_data, total_stats>>
    /\ idx' = idx + 1
    /\ UNCHANGED <<src, html_files, chunk_size, sort_chronological, pc,
                   enex_notes, chunk_i, output, summary, m_in, m_out, u_in,
                   u_out>>

\* lines 307-321
SortAndSplit ==
    /\ pc = "process"
    /\ idx > Len(html_files)
    /\ IF notes_data = <<>>
       THEN /\ pc' = "aborted"
            /\ UNCHANGED <<notes_data, enex_notes>>
       ELSE LET sorted == IF sort_chronological THEN SortByCreated(notes_data)
                          ELSE notes_data
            IN /\ notes_data' = sorted
               /\ enex_notes' = [i \in 1..Len(sorted) |->
                                   [note_xml |-> sorted[i].note_xml,
                                    origin |-> sorted[i].origin]]
               /\ pc' = "write"
    /\ chunk_i' = 0
    /\ UNCHANGED <<src, html_files, chunk_size, sort_chronological, idx,
                   total_stats, log_file, output, summary, m_in, m_out, u_in,
                   u_out>>

\* lines 323-336: one iteration
WriteChunk ==
    /\ pc = "write"
    /\ chunk_i < TotalChunks(Len(enex_notes), chunk_size)
    /\ output' = Append(output,
          [chunk_filename |-> Pad3(chunk_i + 1),
           notes |-> ChunkSlice(enex_notes, chunk_i, chunk_size)])
    /\ chunk_i' = chunk_i + 1
    /\ UNCHANGED <<src, html_files, chunk_size, sort_chronological, pc, idx,
                   notes_data, total_stats, log_file, enex_notes, summary,
                   m_in, m_out, u_in, u_out>>

\* lines 338-350
PrintSummary ==
    /\ pc = "write"
    /\ chunk_i >= TotalChunks(Len(enex_notes), chunk_size)
    /\ summary' = Some(
          [notes |-> Len(enex_notes),
           files |-> TotalChunks(Len(enex_notes), chunk_size),
           media_count |-> total_stats.media_count,
           checklist_count |-> total_stats.checklist_count,
           pinned_count |-> total_stats.pinned_count,
           archived_count |-> total_stats.archived_count])
    /\ pc' = "done"
    /\ UNCHANGED <<src, html_files, chunk_size, sort_chronological, idx,
                   notes_data, total_stats, log_file, enex_notes, chunk_i,
                   output, m_in, m_out, u_in, u_out>>

Listings(n) ==
    {q \in [1..n -> 1..n] : \A i, j \in 1..n : q[i] = q[j] => i = j}

-----------------------------------------------------------------------------
(* Specifications *)

IdleCalls ==
    /\ m_in = NoneV /\ m_out = NoneV
    /\ u_in = NoneV /\ u_out = NoneV

IdleDriver ==
    /\ src = <<>> /\ html_files = <<>>
    /\ chunk_size = 1 /\ sort_chronological = FALSE
    /\ pc = "idle" /\ idx = 1
    /\ notes_data = <<>>
    /\ total_stats = [media_count |-> 0, checklist_count |-> 0,
                      pinned_count |-> 0, archived_count |-> 0]
    /\ log_file = <<>> /\ enex_notes = <<>> /\ chunk_i = 0
    /\ output = <<>> /\ summary = NoneV

\* the state when create_enex_chunks is entered: the file names are 1..n, in
\* their lexicographic order; os.listdir returns them in any order
Init ==
    /\ \E n \in 0..MaxNotes :
          /\ html_files \in Listings(n)
          /\ src \in [1..n -> Profiles]
    /\ chunk_size \in 1..MaxChunk
    /\ sort_chronological \in BOOLEAN
    /\ pc = "start" /\ idx = 1
    /\ notes_data = <<>>
    /\ total_stats = [media_count |-> 0, checklist_count |-> 0,
                      pinned_count |-> 0, archived_count |-> 0]
    /\ log_file = <<>> /\ enex_notes = <<>> /\ chunk_i = 0
    /\ output = <<>> /\ summary = NoneV
    /\ IdleCalls

Next == Discover \/ ProcessOne \/ SortAndSplit \/ WriteChunk \/ PrintSummary

Spec == Init /\ [][Next]_vars

\* a call of get_timestamps_from_json
CallGetTimestamps ==
    /\ m_in # NoneV /\ m_out = NoneV
    /\ m_out' = Some(get_timestamps_from_json(m_in[1].json, m_in[1].mtime,
                                              m_in[1].now))
    /\ UNCHANGED <<driver, m_in, u_in, u_out>>

InitMeta ==
    /\ IdleDriver
    /\ \E mtime \in {NoneV, Some(5)} :
          \/ \E j \in OtherSidecars : m_in = Some(MetaCall(j, mtime))
          \/ \E d \in ObjectData :
                m_in = Some(MetaCall(ObjectSidecar(d), mtime))
    /\ m_out = NoneV /\ u_in = NoneV /\ u_out = NoneV

NextMeta == CallGetTimestamps

SpecMeta == InitMeta /\ [][NextMeta]_vars

\* a call of process_note
CallProcessNote ==
    /\ u_in # NoneV /\ u_out = NoneV
    /\ u_out' = Some(process_note(u_in[1].note, 1, u_in[1].log_file))
    /\ UNCHANGED <<driver, m_in, m_out, u_in>>

\* the migration log when process_note is called: empty, or with a line of
\* an earlier note
PriorLogs == {<<>>, <<LogLine("SKIP", "content", 0, <<>>)>>}

NoteCall(n, log) == [note |-> n, log_file |-> log]

InitNote ==
    /\ IdleDriver
    /\ \E log \in PriorLogs :
         \/ \E k \in 0..MaxItems :
              \E ls \in SeqsUpTo(IncreasingSeqs(k), MaxLists) :
                 \E it \in [1..k -> ListItems] :
                    u_in = Some(NoteCall(ChecklistNote(it, ls), log))
         \/ \E n \in GlyphNotes \cup ImageNotes \cup TextNotes :
              u_in = Some(NoteCall(n, log))
         \/ \E j \in OtherSidecars : u_in = Some(NoteCall(SidecarNote(j), log))
         \/ \E d \in NoteObjectData :
              u_in = Some(NoteCall(SidecarNote(ObjectSidecar(d)), log))
    /\ u_out = NoneV /\ m_in = NoneV /\ m_out = NoneV

NextNote == CallProcessNote

SpecNote == InitNote /\ [][NextNote]_vars

-----------------------------------------------------------------------------
(* Properties of create_enex_chunks, under Spec *)

Finished == pc \in {"done", "aborted"}

\* the notes of the documents written, in document order
RECURSIVE Flatten(_)
Flatten(docs) ==
    IF docs = <<>> THEN <<>>
    ELSE Flatten(SubSeq(docs, 1, Len(docs) - 1)) \o docs[Len(docs)].notes

Files == 1..Len(html_files)

\* whether process_note returns a note for the file
Returned(f) == process_note(NoteOf(src[f]), f, <<>>).result # NoneV

\* the metadata of the file's sidecar
MetaOf(f) ==
    get_timestamps_from_json(NoteOf(src[f]).json, NoteOf(src[f]).mtime,
                             NoteOf(src[f]).now)

\* the position of the file in the order of discovery
Discovered(f) == CHOOSE i \in 1..Len(html_files) : html_files[i] = f

\* C1: the documents written are ceil(n / size) in number, are numbered
\* 001, 002, ... in the order written, hold size notes each but the last,
\* which holds 1..size notes, and hold together exactly the ordered note
\* sequence: no gap, no overlap, no reordering.
C1_ChunksPartition ==
    pc = "done" =>
       LET n == Len(enex_notes)
           d == Len(output)
       IN /\ n >= 1 /\ d >= 1
          /\ (d - 1) * chunk_size < n /\ n <= d * chunk_size
          /\ Flatten(output) = enex_notes
          /\ \A k \in 1..(d - 1) : Len(output[k].notes) = chunk_size
          /\ Len(output[d].notes) \in 1..chunk_size
          /\ \A k \in 1..d :
                LET name == output[k].chunk_filename
                IN /\ Len(name) = 3
                   /\ \A p \in 1..3 : name[p] \in 0..9
                   /\ 100 * name[1] + 10 * name[2] + name[3] = k

\* several documents, the last one not full
C1_Witness ==
    /\ pc = "done"
    /\ Len(output) >= 2
    /\ Len(output[Len(output)].notes) < chunk_size

\* C2: when the run ends, the notes written are as many as the notes
\* process_note returned; a note returned is written once and has no line
\* saying it was dropped; a note dropped is written nowhere and has exactly
\* one line in the migration log.
C2_WrittenOrLogged ==
    Finished =>
       LET written == Flatten(output)
           Copies(f) ==
              Cardinality({i \in 1..Len(written) : written[i].origin = f})
           Lines(f) ==
              Cardinality({i \in 1..Len(log_file) : log_file[i].path = f})
           DropLines(f) ==
              Cardinality({i \in 1..Len(log_file) :
                              /\ log_file[i].path = f
                              /\ log_file[i].level \in {"ERROR", "SKIP"}})
       IN /\ Len(written) = Cardinality({f \in Files : Returned(f)})
          /\ \A f \in Files :
                IF Returned(f)
                THEN Copies(f) = 1 /\ DropLines(f) = 0
                ELSE Copies(f) = 0 /\ Lines(f) = 1 /\ DropLines(f) = 1

\* a run that wrote a note and dropped two, one for each reason
C2_Witness ==
    /\ pc = "done"
    /\ \E f, g \in Files :
          /\ NoteOf(src[f]).html = "unreadable"
          /\ NoteOf(src[g]).html = "ok" /\ NoteOf(src[g]).container = "none"
    /\ Flatten(output) # <<>>

\* C3: with the chronological sort, the notes written have non-decreasing
\* creation epochs in output order, and notes of the same epoch are in the
\* order of their discovery.
C3_SortedAndStable ==
    (pc = "done" /\ sort_chronological) =>
       LET written == Flatten(output)
           Created(f) == MetaOf(f).created
       IN \A i, j \in 1..Len(written) :
             i < j =>
                /\ Created(written[i].origin) <= Created(written[j].origin)
                /\ Created(written[i].origin) = Created(written[j].origin)
                      => Discovered(written[i].origin)
                         < Discovered(written[j].origin)

\* a sorted run with two notes of one epoch, and a note discovered before an
\* older one
C3_Witness ==
    /\ pc = "done" /\ sort_chronological
    /\ \E f, g \in Files :
          /\ f # g /\ Returned(f) /\ Returned(g)
          /\ MetaOf(f).created = MetaOf(g).created
    /\ \E f, g \in Files :
          /\ Returned(f) /\ Returned(g)
          /\ Discovered(f) < Discovered(g)
          /\ MetaOf(f).created > MetaOf(g).created

\* C9 as stated: without the chronological sort, the notes are written in
\* the lexicographic order of their file names.
C9_UnsortedIsLexicographic ==
    (pc = "done" /\ ~sort_chronological) =>
       LET written == Flatten(output)
       IN \A i, j \in 1..Len(written) :
             i < j => written[i].origin < written[j].origin

\* C10 as stated: the summary counts the assembled notes whose pinned flag is
\* set, and those whose archived flag is set.
C10_SummaryCountsFlags ==
    pc = "done" =>
       /\ summary[1].pinned_count =
             Cardinality({f \in Files : Returned(f) /\ MetaOf(f).is_pinned})
       /\ summary[1].archived_count =
             Cardinality({f \in Files : Returned(f) /\ MetaOf(f).is_archived})

-----------------------------------------------------------------------------
(* Properties of process_note, under SpecNote *)

\* process_note was called and returned a note
NoteReturned == u_out # NoneV /\ u_out[1].result # NoneV

\* the image cannot be decoded (a data URI) or read (an existing file)
Fails(img) ==
    \/ img.scheme = "data" /\ ~img.loads
    \/ img.scheme = "path" /\ img.isfile /\ ~img.loads

\* the image yields bytes and a type
Loadable(img) ==
    /\ ~Fails(img)
    /\ img.bytes # <<>>
    /\ \/ img.scheme = "data"
       \/ img.isfile /\ EndsWith(img.basename, <<".", "p", "n", "g">>)

\* C4 as stated: the en-media markers and the resource blocks of a note are
\* in bijection by hash: the hash of a marker is the hash of the bytes of
\* exactly one resource block, and every resource block is referred to by
\* exactly one marker.
C4_MarkersMatchResourcesByHash ==
    NoteReturned =>
       LET note == u_out[1].result[1].note_xml
           Markers == 1..Len(note.media_tags)
           Blocks == 1..Len(note.resources)
           Refers(i, j) ==
              note.media_tags[i].hash = md5(b64decode(note.resources[j].data))
       IN /\ \A i \in Markers :
                Cardinality({j \in Blocks : Refers(i, j)}) = 1
          /\ \A j \in Blocks :
                Cardinality({i \in Markers : Refers(i, j)}) = 1

\* C5: a list item below a checklist list that has a bullet and a text
\* becomes a todo marker followed by the text, the marker checked exactly
\* when the bullet text is a checked glyph, and is counted once; any other
\* list item is left as it was and is not counted.
C5_ChecklistItems ==
    NoteReturned =>
       LET n == u_in[1].note
           res == u_out[1].result[1]
           out == res.note_xml.content_html.items
           Listed(i) ==
              \E k \in 1..Len(n.checklists) :
                 \E j \in 1..Len(n.checklists[k]) : n.checklists[k][j] = i
           Both(i) == n.items[i].bullet # NoneV /\ n.items[i].text # NoneV
           Glyphs == {<<"U2611">>, <<"U2713">>, <<"U2714">>,
                      <<"&", "#", "9", "7", "4", "5", ";">>}
       IN /\ Len(out) = Len(n.items)
          /\ \A i \in 1..Len(out) :
                IF Listed(i) /\ Both(i)
                THEN /\ out[i].bullet = NoneV /\ out[i].text = NoneV
                     /\ out[i].todo =
                           Some(IF Strip(n.items[i].bullet[1]) \in Glyphs
                                THEN "true" ELSE "false")
                     /\ out[i].tail = <<" ">> \o Strip(n.items[i].text[1])
                ELSE out[i] = ItemMarkup(n.items[i])
          /\ res.stats.checklist_count =
                Cardinality({i \in 1..Len(out) : Listed(i) /\ Both(i)})

\* a note with an item below two lists that became a checked todo, and an
\* item below a list that lacks a sub-element
C5_Witness ==
    /\ NoteReturned
    /\ LET n == u_in[1].note
           res == u_out[1].result[1]
           out == res.note_xml.content_html.items
       IN /\ Len(n.checklists) = 2
          /\ \E i \in 1..Len(out) :
                /\ \A k \in 1..2 :
                      \E j \in 1..Len(n.checklists[k]) : n.checklists[k][j] = i
                /\ out[i].todo = Some("true")
          /\ \E i \in 1..Len(out) :
                /\ \E j \in 1..Len(n.checklists[1]) : n.checklists[1][j] = i
                /\ n.items[i].bullet = NoneV
          /\ res.stats.checklist_count = 1

\* the names of the label entries of a list, in order
RECURSIVE NamesIn(_)
NamesIn(items) ==
    IF items = <<>> THEN <<>>
    ELSE NamesIn(SubSeq(items, 1, Len(items) - 1))
         \o (IF items[Len(items)].name = NoneV THEN <<>>
             ELSE <<items[Len(items)].name[1]>>)

\* the sidecar is read without an exception
ReadsCleanly(json) ==
    /\ json.exists /\ json.parse = "object"
    /\ json.data.createdTimestampUsec.k # "nan"
    /\ json.data.userEditedTimestampUsec.k # "nan"
    /\ json.data.labels.k # "int"
    /\ \A i \in 1..Len(json.data.labels.items) :
          json.data.labels.items[i].k = "obj"

\* C6: the tags of a note are the labels of its sidecar in their order, then
\* "pinned" exactly when the pinned flag is set, then "archived" exactly when
\* the archived flag is set, nothing added, dropped or deduplicated.  The
\* labels and flags are those of the sidecar when it is read without an
\* exception, and those get_timestamps_from_json returns otherwise.
C6_TagList ==
    NoteReturned =>
       LET n == u_in[1].note
           meta == get_timestamps_from_json(n.json, n.mtime, n.now)
           clean == ReadsCleanly(n.json)
           labels == IF clean THEN NamesIn(n.json.data.labels.items)
                     ELSE meta.labels
           pinned == IF clean THEN n.json.data.isPinned = "true"
                     ELSE meta.is_pinned
           archived == IF clean THEN n.json.data.isArchived = "true"
                       ELSE meta.is_archived
           expected == labels \o (IF pinned THEN <<S_pinned>> ELSE <<>>)
                              \o (IF archived THEN <<S_archived>> ELSE <<>>)
           tags == u_out[1].result[1].note_xml.tag_elements
       IN /\ Len(tags) = Len(expected)
          /\ \A i \in 1..Len(tags) :
                tags[i] = html_escape(NFC(html_unescape(expected[i])))

\* a pinned and archived note with the labels "a&b" and "pinned": the tag
\* "pinned" is there twice
C6_Witness ==
    /\ NoteReturned
    /\ ReadsCleanly(u_in[1].note.json)
    /\ u_in[1].note.json.data.isArchived = "true"
    /\ u_out[1].result[1].note_xml.tag_elements =
          <<<<"a", "&", "a", "m", "p", ";", "b">>, S_pinned, S_pinned,
            S_archived>>

\* C7: an image that cannot be decoded or read is skipped with exactly one
\* warning line; every loadable image of the note is still embedded, in
\* order, and the note is returned.
C7_ImageFailureIsolated ==
    (/\ u_out # NoneV
     /\ u_in[1].note.html = "ok"
     /\ u_in[1].note.container # "none") =>
       /\ u_out[1].result # NoneV
       /\ LET n == u_in[1].note
              prior == u_in[1].log_file
              log == u_out[1].log
              good == SelectSeq(n.imgs, Loadable)
              bad == SelectSeq(n.imgs, Fails)
              note == u_out[1].result[1].note_xml
          IN /\ Len(note.resources) = Len(good)
             /\ Len(note.media_tags) = Len(good)
             /\ \A k \in 1..Len(good) :
                   b64decode(note.resources[k].data) = good[k].bytes
             /\ u_out[1].result[1].stats.media_count = Len(good)
             /\ Len(log) = Len(prior) + Len(bad)
             /\ SubSeq(log, 1, Len(prior)) = prior
             /\ \A k \in 1..Len(bad) :
                   /\ log[Len(prior) + k].level = "WARN"
                   /\ log[Len(prior) + k].path = 1

\* a note whose first image cannot be read and whose second is embedded, with
\* one line added to a log that had one
C7_Witness ==
    /\ NoteReturned
    /\ LET n == u_in[1].note
       IN /\ Len(n.imgs) = 2
          /\ Fails(n.imgs[1]) /\ n.imgs[1].scheme = "path"
          /\ Loadable(n.imgs[2])
          /\ Len(u_in[1].log_file) = 1
          /\ Len(u_out[1].log) = 2
          /\ Len(u_out[1].result[1].note_xml.resources) = 1

-----------------------------------------------------------------------------
(* Properties of get_timestamps_from_json, under SpecMeta *)

\* C8 as stated: whenever reading the sidecar fails, the defaults are
\* returned with a warning: not pinned, not archived, no labels, the creation
\* epoch of the fallback chain, the update epoch equal to it.
C8_FailureReturnsDefaults ==
    (m_out # NoneV /\ m_in[1].json.exists /\ ~ReadsCleanly(m_in[1].json)) =>
       LET r == m_out[1]
           fallback == IF m_in[1].mtime # NoneV THEN m_in[1].mtime[1]
                       ELSE m_in[1].now
       IN /\ r.warned
          /\ ~r.is_pinned /\ ~r.is_archived /\ r.labels = <<>>
          /\ r.created = fallback /\ r.updated = fallback

=============================================================================
